---- MODULE Spec2Model ----
(***************************************************************************)
(* Model of the AKS AI agent: the agent factory and report plugin of       *)
(* app.py, the report writer of utilities.py, the chat handlers of         *)
(* app_ui.py and the driver of test/test_main_app.py.                      *)
(*                                                                         *)
(* One process is either the chat server (host = "ui"), which serves the   *)
(* sessions of Sessions on one event loop, or the test driver              *)
(* (host = "test"), which runs the single caller TestCaller.  Coroutines   *)
(* interleave only at their await points, so every action below is the     *)
(* code between two awaits.                                                *)
(***************************************************************************)
EXTENDS Naturals, Sequences, FiniteSets

VARIABLES
    host,                   \* "ui" (app_ui.py under chainlit) or "test" (test_main_app.py)
    env,                    \* process environment: variable name -> value
    pc,                     \* per session: position of its handler
    create_result,          \* per session: outcome of create_kubernetes_discovery_agent
    agent,                  \* per session: the stored agent (its kernel's plugins) or NoAgent
    kube_discovery_plugin,  \* app.py module global
    adapter,                \* per MCPStdioPlugin object: [state, stops]
    dirExists,              \* REPORT_DIR exists on disk
    files,                  \* files on disk: set of <<path, content>>
    lastSink,               \* most recent generate_cluster_summary call and its result
    response_content,       \* per session: local of on_message / test_main_app
    received,               \* per session: texts the backend has streamed this turn, in order
    outbound,               \* per session: messages the running/last handler handed to send()
    last_turn,              \* per session: the path the last handled message took
    saved,                  \* per session: report this session's running turn saved last
    last_writer             \* session of the latest save, None once a save has failed

vars == <<host, env, pc, create_result, agent, kube_discovery_plugin, adapter,
          dirExists, files, lastSink, response_content, received, outbound,
          last_turn, saved, last_writer>>

sessionVars == <<pc, create_result, agent, response_content, received, outbound>>
turnVars    == <<last_turn, saved, last_writer>>
adapterVars == <<kube_discovery_plugin, adapter>>
fsVars      == <<dirExists, files>>

----------------------------------------------------------------------------
(* Bounds and small input sets *)

MaxFragments == 2           \* fragments streamed by the backend in one turn

Sessions   == {"s1", "s2"}  \* chat sessions of the server
TestCaller == "s1"          \* the one caller of the test driver
Adapters   == Sessions      \* the MCPStdioPlugin constructed by session s is named s

None       == "None"        \* Python None / unset environment variable
EnvValues  == {None, "", "v"}
FragTexts  == {<<>>, <<"a">>, <<"b">>}
Shapes     == {"nested", "flat", "bare"}
Fragments  == [shape : Shapes, text : FragTexts]
Contents   == {<<"a">>, <<"b", "a">>}
Outcomes   == {"ok", "mkdir_fails", "open_fails", "write_fails"}

NoAgent    == [kubernetes_discovery_plugin |-> None, cluster_report_plugin |-> FALSE]
NoPath     == <<>>

----------------------------------------------------------------------------
(* app.py: configuration *)

REPORT_DIR == "./ClusterReports/"

\* Python truthiness of an optional string.
Truthy(v) == v \notin {None, ""}

\* Python `a or b`.
Or(a, b) == IF Truthy(a) THEN a ELSE b

\* os.getenv(name) of a variable without default.
Getenv(name) == env[name]

\* Lines 52-53: the endpoint and key a create call ends up with.
ResolvedEndpoint(arg) == Or(arg, Getenv("AZURE_OPENAI_ENDPOINT"))
ResolvedApiKey(arg)   == Or(arg, Getenv("AZURE_OPENAI_API_KEY"))

\* Line 56: the guard of the ValueError.
ConfigMissing(endpointArg, apiKeyArg) ==
    \/ ~Truthy(ResolvedEndpoint(endpointArg))
    \/ ~Truthy(ResolvedApiKey(apiKeyArg))

----------------------------------------------------------------------------
(* Messages sent to the user (app_ui.py) *)

Msg(kind, text) == [kind |-> kind, text |-> text]

WelcomeMsg        == Msg("welcome", <<>>)
NotInitializedMsg == Msg("not_initialized", <<>>)
NoResponseMsg     == Msg("no_response", <<>>)
ErrorMsg          == Msg("error", <<>>)
ReplyMsg(text)    == Msg("reply", text)

----------------------------------------------------------------------------
(* app.py ClusterReportPlugin and utilities.py: the report sink *)

\* What a call of generate_cluster_summary hands back to the framework.
SinkResult(kind, text, path) == [kind |-> kind, text |-> text, path |-> path]
NoReturn == SinkResult("none", <<>>, NoPath)
Raised   == SinkResult("raised", <<>>, NoPath)

\* Line 30: os.path.join(REPORT_DIR, "cluster_summary.md").
FilePath == <<REPORT_DIR, "cluster_summary.md">>

\* The first n characters of a text.
Prefix(text, n) == SubSeq(text, 1, n)

\* Variant of WriteToFileMd: the file is opened for appending, so what is
\* written follows the previous content.
WriteToFileMdAppend(fs, file_path, content, written) ==
    LET old == {f \in fs : f[1] = file_path}
    IN  (fs \ old) \cup
        (IF old = {}
         THEN {<<file_path, Prefix(content, written)>>}
         ELSE {<<file_path, f[2] \o Prefix(content, written)>> : f \in old})

\* Variant of WriteToFileMd: the file is opened without truncation, so what
\* the old content had beyond the new text stays.
WriteToFileMdNoTruncate(fs, file_path, content, written) ==
    LET old == {f \in fs : f[1] = file_path}
        new == Prefix(content, written)
    IN  (fs \ old) \cup
        (IF old = {}
         THEN {<<file_path, new>>}
         ELSE {<<file_path, new \o SubSeq(f[2], Len(new) + 1, Len(f[2]))>> : f \in old})

\* utilities.py lines 15-16: open(file_path, 'w') truncates or creates the
\* file, f.write puts the content in it; `written` is how much of it
\* reached the disk (all of it unless the write fails).
WriteToFileMd(fs, file_path, content, written) ==
    {f \in fs : f[1] # file_path} \cup {<<file_path, Prefix(content, written)>>}

\* Lines 32 and 34: the value returned.
SinkReturn(summary_markdown, save_file) ==
    IF save_file
    THEN SinkResult("confirmation", <<>>, FilePath)
    ELSE SinkResult("inline", summary_markdown, NoPath)

\* Variant of GenerateClusterSummary: the directory is made before save_file
\* is looked at.
GenerateClusterSummaryEagerDir(summary_markdown, save_file, outcome, written) ==
    /\ dirExists' = TRUE
    /\ IF save_file
       THEN /\ outcome = "ok"
            /\ written = Len(summary_markdown)
            /\ files' = WriteToFileMd(files, FilePath, summary_markdown, written)
       ELSE /\ outcome = "ok"
            /\ written = Len(summary_markdown)
            /\ UNCHANGED files
    /\ lastSink' = [called |-> TRUE, content |-> summary_markdown, save |-> save_file,
                    ret |-> SinkReturn(summary_markdown, save_file)]

\* app.py lines 27-34 with utilities.py lines 6-20.  outcome and written are
\* the environment's part: whether makedirs, open and write succeed.
GenerateClusterSummary(summary_markdown, save_file, outcome, written) ==
    /\ IF save_file
       THEN \/ /\ outcome = "mkdir_fails"       \* os.makedirs raises
               /\ ~dirExists
               /\ written = 0
               /\ UNCHANGED fsVars
            \/ /\ outcome = "open_fails"        \* open raises, re-raised at line 20
               /\ written = 0
               /\ dirExists' = TRUE
               /\ UNCHANGED files
            \/ /\ outcome = "write_fails"       \* write raises, re-raised at line 20
               /\ written < Len(summary_markdown)
               /\ dirExists' = TRUE
               /\ files' = WriteToFileMd(files, FilePath, summary_markdown, written)
            \/ /\ outcome = "ok"
               /\ written = Len(summary_markdown)
               /\ dirExists' = TRUE
               /\ files' = WriteToFileMd(files, FilePath, summary_markdown, written)
       ELSE /\ outcome = "ok"
            /\ written = Len(summary_markdown)
            /\ UNCHANGED fsVars
    /\ lastSink' = [called |-> TRUE, content |-> summary_markdown, save |-> save_file,
                    ret |-> IF outcome = "ok"
                            THEN SinkReturn(summary_markdown, save_file)
                            ELSE Raised]

----------------------------------------------------------------------------
(* Initial state: a fresh process; the environment and the state of the    *)
(* disk are whatever the deployment provides.                              *)

Init ==
    /\ host \in {"ui", "test"}
    /\ env \in [{"AZURE_OPENAI_ENDPOINT", "AZURE_OPENAI_API_KEY"} -> EnvValues]
    /\ pc = [s \in Sessions |-> "new"]
    /\ create_result = [s \in Sessions |-> "none"]
    /\ agent = [s \in Sessions |-> NoAgent]
    /\ kube_discovery_plugin = None
    /\ adapter = [a \in Adapters |-> [state |-> "absent", stops |-> 0]]
    /\ dirExists \in BOOLEAN
    /\ files = {}
    /\ lastSink = [called |-> FALSE, content |-> <<>>, save |-> FALSE, ret |-> NoReturn]
    /\ response_content = [s \in Sessions |-> <<>>]
    /\ received = [s \in Sessions |-> <<>>]
    /\ outbound = [s \in Sessions |-> <<>>]
    /\ last_turn = [s \in Sessions |-> "none"]
    /\ saved = [s \in Sessions |-> {}]
    /\ last_writer = None

\* The callers that exist in this process.
Callers == IF host = "ui" THEN Sessions ELSE {TestCaller}

----------------------------------------------------------------------------
(* app.py: create_kubernetes_discovery_agent, as called without arguments  *)
(* by app_ui.start (line 7) and test_main_app (line 22).                   *)

CallerEndpointArg == None
CallerApiKeyArg   == None

\* Where the caller continues when create raises: start() propagates the
\* exception, so no agent is stored; test_main_app goes to its finally block.
AfterCreateRaised == IF host = "ui" THEN "idle" ELSE "finally"

\* Lines 50-57: the configuration is missing, ValueError.
CreateRaisesConfigError(s) ==
    /\ s \in Callers
    /\ pc[s] = "new"
    /\ ConfigMissing(CallerEndpointArg, CallerApiKeyArg)
    /\ create_result' = [create_result EXCEPT ![s] = "ValueError"]
    /\ pc' = [pc EXCEPT ![s] = AfterCreateRaised]
    /\ UNCHANGED <<host, env, agent, adapterVars, fsVars, lastSink,
                   response_content, received, outbound, turnVars>>

\* Lines 59-81: kernel and completion service are built, the plugin object is
\* constructed and stored in the module global, and the coroutine suspends in
\* __aenter__.
CreateStartsAdapter(s) ==
    /\ s \in Callers
    /\ pc[s] = "new"
    /\ ~ConfigMissing(CallerEndpointArg, CallerApiKeyArg)
    /\ kube_discovery_plugin' = s
    /\ adapter' = [adapter EXCEPT ![s].state = "starting"]
    /\ pc' = [pc EXCEPT ![s] = "creating"]
    /\ UNCHANGED <<host, env, create_result, agent, fsVars, lastSink,
                   response_content, received, outbound, turnVars>>

\* Line 84: the plugin object handed to kernel.add_plugin is read from the
\* module global after the await.
RegisteredAdapter(s) == kube_discovery_plugin

\* Lines 81-92, then app_ui lines 8-34 or test_main_app lines 23-33: the
\* subprocess of s's plugin came up; create registers the plugins and
\* returns the agent; start() stores it and sends the welcome message, the
\* test driver goes on to invoke.
AdapterStarted(s) ==
    /\ pc[s] = "creating"
    /\ adapter' = [adapter EXCEPT ![s].state = "started"]
    /\ agent' = [agent EXCEPT ![s] =
                    [kubernetes_discovery_plugin |-> RegisteredAdapter(s),
                     cluster_report_plugin |-> TRUE]]
    /\ create_result' = [create_result EXCEPT ![s] = "ok"]
    /\ IF host = "ui"
       THEN /\ outbound' = [outbound EXCEPT ![s] = <<WelcomeMsg>>]
            /\ pc' = [pc EXCEPT ![s] = "idle"]
       ELSE /\ outbound' = outbound
            /\ pc' = [pc EXCEPT ![s] = "invoking"]
    /\ UNCHANGED <<host, env, kube_discovery_plugin, fsVars, lastSink,
                   response_content, received, turnVars>>

\* Line 81 raises: the subprocess did not start.  Nothing in create or in
\* start() catches it.
AdapterLaunchFails(s) ==
    /\ pc[s] = "creating"
    /\ adapter' = [adapter EXCEPT ![s].state = "failed"]
    /\ create_result' = [create_result EXCEPT ![s] = "LaunchError"]
    /\ pc' = [pc EXCEPT ![s] = AfterCreateRaised]
    /\ UNCHANGED <<host, env, agent, kube_discovery_plugin, fsVars, lastSink,
                   response_content, received, outbound, turnVars>>

\* __aexit__ on plugin a.
Stopped(a) ==
    [adapter EXCEPT ![a] = [state |-> IF @.state = "started" THEN "stopped" ELSE @.state,
                            stops |-> @.stops + 1]]

\* test_main_app lines 55-62: the finally block stops whatever the module
\* global refers to.
TestFinally ==
    /\ host = "test"
    /\ pc[TestCaller] = "finally"
    /\ adapter' = IF Truthy(kube_discovery_plugin)
                  THEN Stopped(kube_discovery_plugin)
                  ELSE adapter
    /\ pc' = [pc EXCEPT ![TestCaller] = "closed"]
    /\ UNCHANGED <<host, env, create_result, agent, kube_discovery_plugin, fsVars,
                   lastSink, response_content, received, outbound, turnVars>>

\* The user disconnects.  app_ui.py registers only on_chat_start and
\* on_message, so no code of the program runs: the session with its handler
\* locals and its message list is dropped and nothing else changes.
Disconnect(s) ==
    /\ host = "ui"
    /\ pc[s] = "idle"
    /\ pc' = [pc EXCEPT ![s] = "closed"]
    /\ response_content' = [response_content EXCEPT ![s] = <<>>]
    /\ received' = [received EXCEPT ![s] = <<>>]
    /\ outbound' = [outbound EXCEPT ![s] = <<>>]
    /\ last_turn' = [last_turn EXCEPT ![s] = "none"]
    /\ saved' = [saved EXCEPT ![s] = {}]
    /\ UNCHANGED <<host, env, create_result, agent, adapterVars, fsVars, lastSink, last_writer>>

----------------------------------------------------------------------------
(* app_ui.py on_message and the same loop in test_main_app.py *)

\* app_ui lines 38-42: no agent in the session.
OnMessageNoAgent(s) ==
    /\ host = "ui"
    /\ pc[s] = "idle"
    /\ agent[s] = NoAgent
    /\ outbound' = [outbound EXCEPT ![s] = <<NotInitializedMsg>>]
    /\ last_turn' = [last_turn EXCEPT ![s] = "no_agent"]
    /\ UNCHANGED <<host, env, pc, create_result, agent, adapterVars, fsVars, lastSink,
                   response_content, received, saved, last_writer>>

\* Variant of OnMessage: the handler does not look at whether an agent is stored.
OnMessageUnchecked(s) ==
    /\ host = "ui"
    /\ pc[s] = "idle"
    /\ pc' = [pc EXCEPT ![s] = "invoking"]
    /\ response_content' = [response_content EXCEPT ![s] = <<>>]
    /\ received' = [received EXCEPT ![s] = <<>>]
    /\ outbound' = [outbound EXCEPT ![s] = <<>>]
    /\ last_turn' = [last_turn EXCEPT ![s] = "none"]
    /\ UNCHANGED <<host, env, create_result, agent, adapterVars, fsVars, lastSink, saved, last_writer>>

\* app_ui lines 38-47: the turn starts, agent.invoke is entered.
OnMessage(s) ==
    /\ host = "ui"
    /\ pc[s] = "idle"
    /\ agent[s] # NoAgent
    /\ pc' = [pc EXCEPT ![s] = "invoking"]
    /\ response_content' = [response_content EXCEPT ![s] = <<>>]
    /\ received' = [received EXCEPT ![s] = <<>>]
    /\ outbound' = [outbound EXCEPT ![s] = <<>>]
    /\ last_turn' = [last_turn EXCEPT ![s] = "none"]
    /\ UNCHANGED <<host, env, create_result, agent, adapterVars, fsVars, lastSink, saved, last_writer>>

\* app_ui lines 48-54: the text of one streamed item, by its shape.
FragmentText(response) ==
    IF response.shape \in {"nested", "flat"}       \* hasattr(response, 'content')
    THEN IF response.shape = "nested"              \* hasattr(response.content, 'content')
         THEN response.text                        \* str(response.content.content)
         ELSE response.text                        \* str(response.content)
    ELSE response.text                             \* str(response)

\* Variant of Accumulate: the new text is put in front.
AccumulatePrepend(acc, response) == FragmentText(response) \o acc

\* The += of lines 50, 52 and 54.
Accumulate(acc, response) == acc \o FragmentText(response)

\* One iteration of the async for: the backend yields an item.
FragmentArrives(s, response) ==
    /\ pc[s] = "invoking"
    /\ Len(received[s]) < MaxFragments
    /\ response_content' = [response_content EXCEPT ![s] = Accumulate(@, response)]
    /\ received' = [received EXCEPT ![s] = Append(@, response.text)]
    /\ UNCHANGED <<host, env, pc, create_result, agent, adapterVars, fsVars, lastSink,
                   outbound, turnVars>>

\* During invoke the backend asks for the local capability and the framework
\* calls ClusterReportPlugin.generate_cluster_summary of this agent's kernel.
SinkCall(s, summary_markdown, save_file, outcome, written) ==
    /\ pc[s] = "invoking"
    /\ agent[s].cluster_report_plugin
    /\ GenerateClusterSummary(summary_markdown, save_file, outcome, written)
    /\ UNCHANGED <<host, env, sessionVars, adapterVars, turnVars>>

\* SinkCall with the bookkeeping of who saved what: saved[s] holds what the
\* running turn of s saved last, last_writer the session of the latest save
\* (None once a save has raised, which may have left the file truncated).
TrackedSinkCall(s, summary_markdown, save_file, outcome, written) ==
    /\ pc[s] = "invoking"
    /\ agent[s].cluster_report_plugin
    /\ GenerateClusterSummary(summary_markdown, save_file, outcome, written)
    /\ saved' = IF save_file /\ outcome = "ok"
                THEN [saved EXCEPT ![s] = {summary_markdown}]
                ELSE saved
    /\ last_writer' = IF ~save_file THEN last_writer
                      ELSE IF outcome = "ok" THEN s ELSE None
    /\ UNCHANGED <<host, env, sessionVars, adapterVars, last_turn>>

\* Variant of ReplyFor: the accumulated text is sent whatever it is.
ReplyForAlways(content) == ReplyMsg(content)

\* app_ui lines 56-59: the stream ended.
ReplyFor(content) == IF content # <<>> THEN ReplyMsg(content) ELSE NoResponseMsg

\* Variant of InvokeEnds: an empty reply is not answered at all.
InvokeEndsSilentOnEmpty(s) ==
    /\ host = "ui"
    /\ pc[s] = "invoking"
    /\ outbound' = [outbound EXCEPT ![s] =
                        IF response_content[s] # <<>>
                        THEN <<ReplyMsg(response_content[s])>>
                        ELSE <<>>]
    /\ pc' = [pc EXCEPT ![s] = "idle"]
    /\ response_content' = [response_content EXCEPT ![s] = <<>>]
    /\ received' = [received EXCEPT ![s] = <<>>]
    /\ last_turn' = [last_turn EXCEPT ![s] = "replied"]
    /\ saved' = [saved EXCEPT ![s] = {}]
    /\ UNCHANGED <<host, env, create_result, agent, adapterVars, fsVars, lastSink, last_writer>>

\* app_ui lines 56-59 on the path where the send returns.
InvokeEnds(s) ==
    /\ host = "ui"
    /\ pc[s] = "invoking"
    /\ outbound' = [outbound EXCEPT ![s] = <<ReplyFor(response_content[s])>>]
    /\ pc' = [pc EXCEPT ![s] = "idle"]
    /\ response_content' = [response_content EXCEPT ![s] = <<>>]
    /\ received' = [received EXCEPT ![s] = <<>>]
    /\ last_turn' = [last_turn EXCEPT ![s] = "replied"]
    /\ saved' = [saved EXCEPT ![s] = {}]
    /\ UNCHANGED <<host, env, create_result, agent, adapterVars, fsVars, lastSink, last_writer>>

\* app_ui lines 56-63: the stream ended and the send of line 57 or 59 raised
\* inside the try block; the except branch sends the error message.
ReplySendRaises(s) ==
    /\ host = "ui"
    /\ pc[s] = "invoking"
    /\ outbound' = [outbound EXCEPT ![s] = <<ReplyFor(response_content[s]), ErrorMsg>>]
    /\ pc' = [pc EXCEPT ![s] = "idle"]
    /\ response_content' = [response_content EXCEPT ![s] = <<>>]
    /\ received' = [received EXCEPT ![s] = <<>>]
    /\ last_turn' = [last_turn EXCEPT ![s] = "send_raised"]
    /\ saved' = [saved EXCEPT ![s] = {}]
    /\ UNCHANGED <<host, env, create_result, agent, adapterVars, fsVars, lastSink,
                   last_writer>>

\* Variant of InvokeRaises: the exception is not caught, nothing is sent and
\* the session loses its agent.
InvokeRaisesUncaught(s) ==
    /\ host = "ui"
    /\ pc[s] = "invoking"
    /\ outbound' = [outbound EXCEPT ![s] = <<>>]
    /\ pc' = [pc EXCEPT ![s] = "idle"]
    /\ agent' = [agent EXCEPT ![s] = NoAgent]
    /\ response_content' = [response_content EXCEPT ![s] = <<>>]
    /\ received' = [received EXCEPT ![s] = <<>>]
    /\ last_turn' = [last_turn EXCEPT ![s] = "invoke_raised"]
    /\ saved' = [saved EXCEPT ![s] = {}]
    /\ UNCHANGED <<host, env, create_result, adapterVars, fsVars, lastSink, last_writer>>

\* app_ui lines 61-63: invoke raised (backend or framework error).
InvokeRaises(s) ==
    /\ host = "ui"
    /\ pc[s] = "invoking"
    /\ outbound' = [outbound EXCEPT ![s] = <<ErrorMsg>>]
    /\ pc' = [pc EXCEPT ![s] = "idle"]
    /\ response_content' = [response_content EXCEPT ![s] = <<>>]
    /\ received' = [received EXCEPT ![s] = <<>>]
    /\ last_turn' = [last_turn EXCEPT ![s] = "invoke_raised"]
    /\ saved' = [saved EXCEPT ![s] = {}]
    /\ UNCHANGED <<host, env, create_result, agent, adapterVars, fsVars, lastSink, last_writer>>

\* test_main_app lines 42-54: the loop ended or raised; on to the finally block.
TestInvokeLeaves ==
    /\ host = "test"
    /\ pc[TestCaller] = "invoking"
    /\ pc' = [pc EXCEPT ![TestCaller] = "finally"]
    /\ saved' = [saved EXCEPT ![TestCaller] = {}]
    /\ UNCHANGED <<host, env, create_result, agent, adapterVars, fsVars, lastSink,
                   response_content, received, outbound, last_turn, last_writer>>

----------------------------------------------------------------------------

Next ==
    \/ \E s \in Sessions : CreateRaisesConfigError(s)
    \/ \E s \in Sessions : CreateStartsAdapter(s)
    \/ \E s \in Sessions : AdapterStarted(s)
    \/ \E s \in Sessions : AdapterLaunchFails(s)
    \/ \E s \in Sessions : OnMessageNoAgent(s)
    \/ \E s \in Sessions : OnMessage(s)
    \/ \E s \in Sessions, response \in Fragments : FragmentArrives(s, response)
    \/ \E s \in Sessions, summary_markdown \in Contents, save_file \in BOOLEAN,
          outcome \in Outcomes :
            \E written \in 0..Len(summary_markdown) :
                SinkCall(s, summary_markdown, save_file, outcome, written)
    \/ \E s \in Sessions : InvokeEnds(s)
    \/ \E s \in Sessions : ReplySendRaises(s)
    \/ \E s \in Sessions : InvokeRaises(s)
    \/ \E s \in Sessions : Disconnect(s)
    \/ TestInvokeLeaves
    \/ TestFinally

Spec == Init /\ [][Next]_vars

\* The behaviours in which the backend streams no text and every save is
\* tracked.  A save neither reads nor writes the stream state of a handler
\* (SinkCall leaves sessionVars alone), so nothing a save can do is lost.
NextSave ==
    \/ \E s \in Sessions : CreateRaisesConfigError(s)
    \/ \E s \in Sessions : CreateStartsAdapter(s)
    \/ \E s \in Sessions : AdapterStarted(s)
    \/ \E s \in Sessions : AdapterLaunchFails(s)
    \/ \E s \in Sessions : OnMessageNoAgent(s)
    \/ \E s \in Sessions : OnMessage(s)
    \/ \E s \in Sessions, summary_markdown \in Contents, save_file \in BOOLEAN,
          outcome \in Outcomes :
            \E written \in 0..Len(summary_markdown) :
                TrackedSinkCall(s, summary_markdown, save_file, outcome, written)
    \/ \E s \in Sessions : InvokeEnds(s)
    \/ \E s \in Sessions : ReplySendRaises(s)
    \/ \E s \in Sessions : InvokeRaises(s)
    \/ \E s \in Sessions : Disconnect(s)
    \/ TestInvokeLeaves
    \/ TestFinally

SaveSpec == Init /\ [][NextSave]_vars

----------------------------------------------------------------------------
(* Derived notions used by the properties *)

\* Concatenation of a sequence of texts, first to last.
RECURSIVE Concat(_)
Concat(texts) == IF texts = <<>> THEN <<>> ELSE Head(texts) \o Concat(Tail(texts))

\* create has returned or raised for s.
CreateFinished(s) == create_result[s] # "none"

\* The start of adapter a succeeded at some point.
StartSucceeded(a) == adapter[a].state \in {"started", "stopped"}

\* Every session of the process has ended.
AllSessionsClosed == \A s \in Callers : pc[s] = "closed"

\* The lifecycle state of the facade of s.
FacadeState(s) ==
    IF agent[s] = NoAgent THEN "Uninitialized"
    ELSE IF adapter[agent[s].kubernetes_discovery_plugin].state = "stopped" THEN "Closed"
    ELSE "Ready"

----------------------------------------------------------------------------
(* Properties *)

\* C1: create succeeds iff endpoint and API key are both non-empty after
\* combining arguments and environment; otherwise it fails with the
\* configuration error, no adapter has been constructed or started and the
\* process-wide adapter handle is unchanged.
C1_CreateSucceedsIffConfigured ==
    \A s \in Sessions :
        CreateFinished(s) =>
            IF ~ConfigMissing(CallerEndpointArg, CallerApiKeyArg)
            THEN create_result[s] = "ok"
            ELSE /\ create_result[s] = "ValueError"
                 /\ adapter[s].state = "absent"
                 /\ kube_discovery_plugin = None

\* C2: once all sessions have closed, every adapter whose start succeeded
\* has been stopped, and exactly once.
C2_StopExactlyOnce ==
    AllSessionsClosed =>
        \A a \in Adapters :
            StartSucceeded(a) => adapter[a].state = "stopped" /\ adapter[a].stops = 1

\* C3: no adapter handle is registered in the facades of two different
\* sessions.
C3_ExclusiveOwnership ==
    \A s, t \in Sessions :
        (s # t /\ agent[s] # NoAgent /\ agent[t] # NoAgent) =>
            agent[s].kubernetes_discovery_plugin # agent[t].kubernetes_discovery_plugin

\* C4: a facade is Ready only after the startup of its adapter succeeded,
\* and invoke runs only on a Ready facade.
C4_Lifecycle ==
    \A s \in Sessions :
        /\ agent[s] # NoAgent => StartSucceeded(agent[s].kubernetes_discovery_plugin)
        /\ pc[s] = "invoking" => FacadeState(s) = "Ready"

\* C5: a step that ends with generate_cluster_summary(content, save_file =
\* false) as the most recent call has left directory and files as they were,
\* and that call returned exactly content.
C5_InlineIsPure ==
    [][(lastSink'.called /\ ~lastSink'.save) =>
          /\ dirExists' = dirExists
          /\ files' = files
          /\ lastSink'.ret = SinkResult("inline", lastSink'.content, NoPath)]_vars

C5_Witness ==
    /\ lastSink.called
    /\ ~lastSink.save
    /\ lastSink.content = <<"b", "a">>
    /\ lastSink.ret.text = <<"b", "a">>
    /\ files = {<<FilePath, <<"a">>>>}

\* C6: there is never more than one report file, and whenever the most
\* recent call was a successful generate_cluster_summary(content, save_file
\* = true), the report file holds exactly content, the directory exists and
\* the call returned the confirmation naming the path.
C6_SaveOverwrites ==
    /\ Cardinality(files) <= 1
    /\ \A f \in files : f[1] = <<REPORT_DIR, "cluster_summary.md">>
    /\ (lastSink.called /\ lastSink.save /\ lastSink.ret # Raised) =>
          /\ files = {<< <<REPORT_DIR, "cluster_summary.md">>, lastSink.content >>}
          /\ dirExists
          /\ lastSink.ret = SinkResult("confirmation", <<>>,
                                       <<REPORT_DIR, "cluster_summary.md">>)

C6_Witness ==
    /\ lastSink.called
    /\ lastSink.save
    /\ lastSink.ret.kind = "confirmation"
    /\ lastSink.content = <<"a">>
    /\ files = {<<FilePath, <<"a">>>>}

\* C7: throughout a turn the accumulated reply is the concatenation of the
\* texts streamed so far, in arrival order, and the reply sent at the end of
\* the stream is the concatenation of all of them.
C7_ReplyIsConcatenation ==
    /\ [](\A s \in Sessions :
            pc[s] = "invoking" => response_content[s] = Concat(received[s]))
    /\ [][\A s \in Sessions :
            (pc[s] = "invoking" /\ pc'[s] = "idle" /\ outbound'[s][1].kind = "reply") =>
                outbound'[s][1].text = Concat(received[s])]_vars

C7_Witness ==
    \E s \in Sessions :
        /\ pc[s] = "invoking"
        /\ received[s] = << <<"a">>, <<"b">> >>
        /\ response_content[s] = <<"a", "b">>

\* C10: when the adapter subprocess fails to start, the session still
\* obtains a facade with the local report capability.
C10_LaunchFailureKeepsLocal ==
    \A s \in Sessions :
        create_result[s] = "LaunchError" =>
            agent[s] # NoAgent /\ agent[s].cluster_report_plugin

\* C11: a session whose facade creation failed holds no agent, is never
\* inside invoke, and whatever message it has handled was answered with the
\* 'Agent not initialized' message alone.
C11_FailedCreateNeverInvokes ==
    \A s \in Sessions :
        create_result[s] \in {"ValueError", "LaunchError"} =>
            /\ agent[s] = NoAgent
            /\ pc[s] # "invoking"
            /\ last_turn[s] \in {"none", "no_agent"}
            /\ outbound[s] \in {<<>>, <<NotInitializedMsg>>}
            /\ last_turn[s] = "no_agent" => outbound[s] = <<NotInitializedMsg>>

C11_Witness ==
    \E s \in Sessions :
        /\ create_result[s] = "LaunchError"
        /\ last_turn[s] = "no_agent"
        /\ outbound[s] = <<NotInitializedMsg>>

\* C12: after a turn in which invoke or the delivery of the reply failed, the
\* last message handed to the user is the error message, the session still
\* holds its agent, and the handler is ready to start the next turn with it.
C12_FailureReportedSessionKept ==
    \A s \in Sessions :
        last_turn[s] \in {"invoke_raised", "send_raised"} =>
            /\ outbound[s] # <<>>
            /\ outbound[s][Len(outbound[s])] = ErrorMsg
            /\ agent[s] # NoAgent
            /\ pc[s] = "idle"
            /\ ENABLED OnMessage(s)

C12_Witness ==
    \E s \in Sessions :
        /\ last_turn[s] = "send_raised"
        /\ outbound[s] = <<ReplyMsg(<<"a">>), ErrorMsg>>
        /\ agent[s] # NoAgent

\* C13, as stated: a handled message has caused exactly one send, whatever
\* path the handler took.
C13_ExactlyOneOutbound ==
    \A s \in Sessions :
        last_turn[s] # "none" => Len(outbound[s]) = 1

\* C13, amended: exactly one send on the four paths agent missing, non-empty
\* reply, empty reply and invoke raised; on the path where the send of the
\* reply itself raises, the error message is sent after it, two sends in all.
C13_OneOutboundUnlessSendRaises ==
    \A s \in Sessions :
        /\ last_turn[s] = "no_agent" => outbound[s] = <<NotInitializedMsg>>
        /\ last_turn[s] = "replied" =>
                Len(outbound[s]) = 1 /\ outbound[s][1].kind \in {"reply", "no_response"}
        /\ last_turn[s] = "invoke_raised" => outbound[s] = <<ErrorMsg>>
        /\ last_turn[s] = "send_raised" =>
                /\ Len(outbound[s]) = 2
                /\ outbound[s][1].kind \in {"reply", "no_response"}
                /\ outbound[s][2] = ErrorMsg

C13_Witness ==
    \E s, t \in Sessions :
        /\ last_turn[s] = "replied"
        /\ outbound[s] = <<NoResponseMsg>>
        /\ last_turn[t] = "send_raised"
        /\ Len(outbound[t]) = 2

\* C14: with saves of several sessions interleaved on the shared path, the
\* report file never holds a mixture of two contents, and after a save that
\* completed last the file is exactly what that save wrote.
C14_LastWriterWins ==
    /\ \A f \in files :
          /\ f[1] = FilePath
          /\ \E c \in Contents : \E n \in 0..Len(c) : f[2] = Prefix(c, n)
    /\ \A s \in Sessions :
          last_writer = s => \A c \in saved[s] : files = {<<FilePath, c>>}

C14_Witness ==
    \E s, t \in Sessions :
        /\ s # t
        /\ pc[s] = "invoking" /\ pc[t] = "invoking"
        /\ saved[s] = {<<"b", "a">>}
        /\ saved[t] = {<<"a">>}
        /\ last_writer = t
        /\ files = {<<FilePath, <<"a">>>>}

\* C16: the adapter registered in a session's facade is the one that
\* session's create call constructed and has started, and the adapter a
\* session constructed and started is registered in some facade while that
\* session holds its facade.
C16_RegistersOwnStartedAdapter ==
    \A s \in Sessions :
        agent[s] # NoAgent =>
            /\ agent[s].kubernetes_discovery_plugin = s
            /\ adapter[s].state = "started" =>
                    \E t \in Sessions :
                        agent[t] # NoAgent /\ agent[t].kubernetes_discovery_plugin = s

\* C17: no reply with empty content is ever sent, and a turn whose stream
\* ended sends the fixed 'No response received' message when the accumulated
\* reply is empty and exactly the accumulated reply otherwise.
C17_NeverEmptyContent ==
    /\ [](\A s \in Sessions : \A i \in 1..Len(outbound[s]) :
            outbound[s][i].kind = "reply" => outbound[s][i].text # <<>>)
    /\ [][\A s \in Sessions :
            (pc[s] = "invoking" /\ last_turn'[s] \in {"replied", "send_raised"}) =>
                outbound'[s][1] = IF response_content[s] = <<>>
                                  THEN NoResponseMsg
                                  ELSE ReplyMsg(response_content[s])]_vars

C17_Witness ==
    \E s, t \in Sessions :
        /\ last_turn[s] = "replied"
        /\ outbound[s] = <<NoResponseMsg>>
        /\ last_turn[t] = "replied"
        /\ outbound[t] = <<ReplyMsg(<<"a", "b">>)>>

====
